---- MODULE Spec2Model ----
(***************************************************************************)
(* The wellness-session platform: the SessionEditor component (auto-save   *)
(* debounce, explicit save, publish), the API client and the /my-sessions  *)
(* routes with the Session schema they write through.                      *)
(*                                                                         *)
(* Strings are sequences of one-character strings, so that trim, split,    *)
(* toLowerCase, startsWith and the URL tests are computed, not assumed.    *)
(* An absent value (null, undefined, a missing key) is the empty tuple     *)
(* None and a present one is the one-element tuple <<x>>.                  *)
(*                                                                         *)
(* A handler's action covers the handler, the render React commits for its *)
(* state updates and the effects of that render: React flushes them before *)
(* the browser dispatches the next event.                                  *)
(***************************************************************************)
EXTENDS Integers, Sequences, FiniteSets, TLC

VARIABLES
    \* ---- SessionEditor (src/src/components/Navbar.jsx:370-384)
    session,            \* [title, tags, json_file_url, _id]
    tagInput,           \* the text of the tags input
    isSaving,
    lastSaved,          \* None, or <<a>>: the Date stored lies a seconds back
    hasUnsavedChanges,
    autoSaveTimer,      \* TRUE when the state holds a timer handle (non-null)
    \* ---- the browser around the component
    timeouts,           \* pending setTimeout callbacks, oldest first
    effectTimer,        \* index in timeouts of the timer the last run of the
                        \* auto-save effect created, 0 when cleared or fired
    inflight,           \* requests sent whose promise has not settled
    toast,              \* the last toast shown
    page,               \* the route shown
    \* ---- the store behind the routes
    sessions,           \* the Session collection
    created,            \* number of documents ever inserted (the next _id)
    response,           \* None, or <<r>>: the last request made of the API
                        \* directly and what the route answered
    \* ---- the API client's credentials (src/src/utils/api.js)
    clientAuth,         \* localStorage's wellness_token and wellness_user,
                        \* the Authorization default header set by setToken,
                        \* and the AuthProvider's token and isLoading
    \* ---- observers (history, read by the properties only)
    sinceEdit,          \* seconds since the last field edit, up to AutoSaveDelay
    autoSaves,          \* automatic persists issued since the last edit
    lastPersisted,      \* None, or <<body>> of the last successful persist
    lastStep            \* what the last handler or continuation did

editorVars  == <<session, tagInput, isSaving, lastSaved, hasUnsavedChanges, autoSaveTimer>>
browserVars == <<timeouts, effectTimer, inflight, toast, page>>
serverVars  == <<sessions, created>>
apiVars     == <<response, clientAuth>>
historyVars == <<sinceEdit, autoSaves, lastPersisted, lastStep>>
vars == <<editorVars, browserVars, serverVars, apiVars, historyVars>>

None == <<>>
Some(x) == <<x>>

----------------------------------------------------------------------------
(* Bounds of the model.                                                    *)

\* documents the store may hold before inserts are no longer explored
MaxRecords == 2
\* saturation of the age of lastSaved
MaxAge == 1
\* saturation of the autoSaves observer
MaxAutoSaves == 2
\* requests the handlers, called directly, may leave unsettled
MaxInflight == 2

\* setTimeout delay of the auto-save effect, in seconds
AutoSaveDelay == 5
\* maxlength of Session.title and of a tag
TitleMaxLength == 200
TagMaxLength == 50

Min(a, b) == IF a < b THEN a ELSE b

----------------------------------------------------------------------------
(* String functions of the JavaScript runtime, over character sequences.   *)

RECURSIVE TrimStart(_)
TrimStart(s) == IF s # <<>> /\ Head(s) = " " THEN TrimStart(Tail(s)) ELSE s

RECURSIVE TrimEnd(_)
TrimEnd(s) ==
    IF s # <<>> /\ s[Len(s)] = " " THEN TrimEnd(SubSeq(s, 1, Len(s) - 1)) ELSE s

\* String.prototype.trim
Trim(s) == TrimEnd(TrimStart(s))

\* String.prototype.toLowerCase, over the letters the model uses
LowerChar(c) ==
    CASE c = "Y" -> "y"
      [] c = "C" -> "c"
      [] OTHER   -> c
ToLowerCase(s) == [i \in 1..Len(s) |-> LowerChar(s[i])]

\* String.prototype.startsWith
StartsWith(s, p) == Len(s) >= Len(p) /\ SubSeq(s, 1, Len(p)) = p

\* String.prototype.split(',') : the pieces between the commas, empty ones kept
RECURSIVE SplitComma(_, _)
SplitComma(s, cur) ==
    IF s = <<>> THEN <<cur>>
    ELSE IF Head(s) = "," THEN <<cur>> \o SplitComma(Tail(s), <<>>)
    ELSE SplitComma(Tail(s), Append(cur, Head(s)))
Split(s) == SplitComma(s, <<>>)

\* Array.prototype.join(', ')
RECURSIVE Join(_)
Join(xs) ==
    IF xs = <<>> THEN <<>>
    ELSE IF Len(xs) = 1 THEN Head(xs)
    ELSE Head(xs) \o <<",", " ">> \o Join(Tail(xs))

HTTP  == <<"h", "t", "t", "p", ":", "/", "/">>
HTTPS == <<"h", "t", "t", "p", "s", ":", "/", "/">>

Letters == {"a", "b", "c", "e", "f", "h", "n", "p", "s", "t", "x", "y", "C", "Y", "U"}

RECURSIVE DropSlashes(_)
DropSlashes(s) == IF s # <<>> /\ Head(s) = "/" THEN DropSlashes(Tail(s)) ELSE s

\* new URL(url) without a base: succeeds when, leading and trailing spaces
\* stripped, the text is <scheme>:<rest> with an alphabetic scheme, and for
\* http and https the host after the slashes is not empty.
UrlParses(url) ==
    LET s == Trim(url) IN
    \E i \in 2..Len(s) :
        /\ s[i] = ":"
        /\ \A j \in 1..(i - 1) : s[j] \in Letters
        /\ LET scheme == SubSeq(s, 1, i - 1)
               rest   == SubSeq(s, i + 1, Len(s))
           IN  scheme \in {<<"h", "t", "t", "p">>, <<"h", "t", "t", "p", "s">>}
                   => DropSlashes(rest) # <<>>

\* validateUrl without its startsWith test
validateUrlParseOnly(url) == UrlParses(url)

\* validateUrl of the editor
validateUrl(url) ==
    /\ UrlParses(url)
    /\ (StartsWith(url, HTTP) \/ StartsWith(url, HTTPS))

\* the schema's match: /^https?:\/\/.+/
MatchesUrlPattern(s) ==
    \/ StartsWith(s, HTTP) /\ Len(s) > Len(HTTP)
    \/ StartsWith(s, HTTPS) /\ Len(s) > Len(HTTPS)

\* a truthiness test that forgets trim()
NonBlankUntrimmed(s) == s # <<>>

\* s.trim() is truthy
NonBlank(s) == Trim(s) # <<>>

\* a parse that keeps the empty pieces
ParseTagsKeepsEmpty(value) ==
    LET pieces == Split(value)
    IN  [i \in 1..Len(pieces) |-> ToLowerCase(Trim(pieces[i]))]

\* handleTagInputChange: split on commas, trim and lowercase, drop the empty
ParseTags(value) ==
    LET pieces == Split(value)
        mapped == [i \in 1..Len(pieces) |-> ToLowerCase(Trim(pieces[i]))]
    IN  SelectSeq(mapped, LAMBDA tag : Len(tag) > 0)

Remove(seq, i) == SubSeq(seq, 1, i - 1) \o SubSeq(seq, i + 1, Len(seq))

----------------------------------------------------------------------------
(* The store: the Session schema and the /my-sessions routes.              *)

UntitledSession == <<"U">>

MsgTitleRequired == "Title is required"
MsgTitleTooLong  == "Title cannot exceed 200 characters"
MsgTagTooLong    == "Tag cannot exceed 50 characters"
MsgUrlRequired   == "JSON file URL is required"
MsgUrlInvalid    == "Please enter a valid URL"
MsgNotFound      == "Session not found"

\* setters without lowercase on tags
SchemaCastKeepsCase(data) ==
    [data EXCEPT !.title = Trim(@),
                 !.tags = [i \in 1..Len(@) |-> Trim(@[i])],
                 !.json_file_url = Trim(@)]

\* the setters of the schema's string paths: trim, and lowercase for tags
SchemaCast(data) ==
    [data EXCEPT !.title = Trim(@),
                 !.tags = [i \in 1..Len(@) |-> ToLowerCase(Trim(@[i]))],
                 !.json_file_url = Trim(@)]

\* the schema without the match validator of json_file_url
SchemaErrorsWithoutMatch(doc) ==
    (IF doc.title = <<>> THEN <<MsgTitleRequired>>
     ELSE IF Len(doc.title) > TitleMaxLength THEN <<MsgTitleTooLong>>
     ELSE <<>>)
    \o (IF \E i \in 1..Len(doc.tags) : Len(doc.tags[i]) > TagMaxLength
        THEN <<MsgTagTooLong>> ELSE <<>>)
    \o (IF doc.json_file_url = <<>> THEN <<MsgUrlRequired>> ELSE <<>>)

\* the validators of the schema, on a cast document: the messages of the
\* paths that fail, in schema order
SchemaErrors(doc) ==
    (IF doc.title = <<>> THEN <<MsgTitleRequired>>
     ELSE IF Len(doc.title) > TitleMaxLength THEN <<MsgTitleTooLong>>
     ELSE <<>>)
    \o (IF \E i \in 1..Len(doc.tags) : Len(doc.tags[i]) > TagMaxLength
        THEN <<MsgTagTooLong>> ELSE <<>>)
    \o (IF doc.json_file_url = <<>> THEN <<MsgUrlRequired>>
        ELSE IF ~MatchesUrlPattern(doc.json_file_url) THEN <<MsgUrlInvalid>>
        ELSE <<>>)

\* tags.filter(tag => tag.trim())
FilterTags(tags) == SelectSeq(tags, LAMBDA tag : NonBlank(tag))

\* a filter on _id alone
OwnedByAnyone(db, id, user) == {d \in db : Some(d._id) = id}

\* the documents matching the filter { _id: id, user_id: req.user._id }
Owned(db, id, user) == {d \in db : Some(d._id) = id /\ d.user_id = user}

\* The collection without the documents `gone`.  updated_at is kept as the
\* document's rank in the order of last writes (1 the oldest), which is all
\* the routes use it for (sort), so the ranks of the rest close up.
RemoveDocs(db, gone) ==
    {[d EXCEPT !.updated_at = @ - Cardinality({g \in gone : g.updated_at < @})] :
        d \in db \ gone}

\* What a write route answers and leaves behind.  `data` is the route's
\* sessionData; with an id the owner's document is updated (validators run
\* before the query), without one a document is inserted.
WriteSession(db, n, user, id, data) ==
    LET doc  == SchemaCast(data)
        errs == SchemaErrors(doc)
    IN  IF errs # <<>>
        THEN [status |-> 400, error |-> errs, session |-> None,
              sessions |-> db, created |-> n]
        ELSE IF id # None
        THEN IF Owned(db, id, user) = {}
             THEN [status |-> 404, error |-> <<MsgNotFound>>, session |-> None,
                   sessions |-> db, created |-> n]
             ELSE LET new == [doc EXCEPT !._id = id[1],
                                         !.updated_at = Cardinality(db)] IN
                  [status |-> 200, error |-> <<>>, session |-> Some(new),
                   sessions |-> RemoveDocs(db, Owned(db, id, user)) \cup {new},
                   created |-> n]
        ELSE LET new == [doc EXCEPT !._id = n + 1,
                                    !.updated_at = Cardinality(db) + 1] IN
             [status |-> 200, error |-> <<>>, session |-> Some(new),
              sessions |-> db \cup {new}, created |-> n + 1]

\* a save-draft that leaves the status of an existing record alone
SaveDraftRouteKeepsStatus(db, n, user, body) ==
    WriteSession(db, n, user, body.id,
        [_id |-> 0, user_id |-> user,
         title |-> IF body.title = <<>> THEN UntitledSession ELSE body.title,
         tags |-> FilterTags(body.tags),
         json_file_url |-> body.json_file_url,
         status |-> IF Owned(db, body.id, user) = {} THEN "draft"
                    ELSE (CHOOSE d \in Owned(db, body.id, user) : TRUE).status,
         updated_at |-> 0])

\* POST /my-sessions/save-draft
SaveDraftRoute(db, n, user, body) ==
    WriteSession(db, n, user, body.id,
        [_id |-> 0, user_id |-> user,
         title |-> IF body.title = <<>> THEN UntitledSession ELSE body.title,
         tags |-> FilterTags(body.tags),
         json_file_url |-> body.json_file_url,
         status |-> "draft", updated_at |-> 0])

\* a publish route that leaves the validation to the schema
PublishRouteWithoutRevalidation(db, n, user, body) ==
    WriteSession(db, n, user, body.id,
        [_id |-> 0, user_id |-> user,
         title |-> Trim(body.title),
         tags |-> FilterTags(body.tags),
         json_file_url |-> Trim(body.json_file_url),
         status |-> "published", updated_at |-> 0])

\* POST /my-sessions/publish
PublishRoute(db, n, user, body) ==
    IF ~NonBlank(body.title)
    THEN [status |-> 400, error |-> <<"Title is required for publishing">>,
          session |-> None, sessions |-> db, created |-> n]
    ELSE IF ~NonBlank(body.json_file_url)
    THEN [status |-> 400, error |-> <<"JSON file URL is required for publishing">>,
          session |-> None, sessions |-> db, created |-> n]
    ELSE WriteSession(db, n, user, body.id,
            [_id |-> 0, user_id |-> user,
             title |-> Trim(body.title),
             tags |-> FilterTags(body.tags),
             json_file_url |-> Trim(body.json_file_url),
             status |-> "published", updated_at |-> 0])

\* DELETE /my-sessions/:id
DeleteRoute(db, n, user, id) ==
    IF Owned(db, id, user) = {}
    THEN [status |-> 404, error |-> <<MsgNotFound>>, session |-> None,
          sessions |-> db, created |-> n]
    ELSE [status |-> 200, error |-> <<>>, session |-> None,
          sessions |-> RemoveDocs(db, Owned(db, id, user)), created |-> n]

\* a route that tells a record of another user from a missing one
GetMySessionRouteForbidden(db, n, user, id) ==
    IF Owned(db, id, user) = {}
    THEN [status |-> IF \E d \in db : Some(d._id) = id THEN 403 ELSE 404,
          error |-> <<MsgNotFound>>, session |-> None,
          sessions |-> db, created |-> n]
    ELSE [status |-> 200, error |-> <<>>,
          session |-> Some(CHOOSE d \in Owned(db, id, user) : TRUE),
          sessions |-> db, created |-> n]

\* GET /my-sessions/:id
GetMySessionRoute(db, n, user, id) ==
    IF Owned(db, id, user) = {}
    THEN [status |-> 404, error |-> <<MsgNotFound>>, session |-> None,
          sessions |-> db, created |-> n]
    ELSE [status |-> 200, error |-> <<>>,
          session |-> Some(CHOOSE d \in Owned(db, id, user) : TRUE),
          sessions |-> db, created |-> n]

\* defaults of the listing routes' page and limit
DefaultPage == 1
DefaultLimit == 20

\* .sort({ updated_at: -1 })
RECURSIVE SortByUpdatedDesc(_)
SortByUpdatedDesc(docs) ==
    IF docs = {} THEN <<>>
    ELSE LET top == CHOOSE d \in docs : \A e \in docs : e.updated_at <= d.updated_at
         IN  <<top>> \o SortByUpdatedDesc(docs \ {top})

\* .limit(limit).skip((page - 1) * limit)
Paginate(seq, pageNo, limit) ==
    SubSeq(seq, (pageNo - 1) * limit + 1, Min(pageNo * limit, Len(seq)))

\* a pagination object whose hasNextPage compares with <=
PaginationOffByOne(total, pageNo, limit) ==
    [currentPage |-> pageNo,
     totalPages |-> (total + limit - 1) \div limit,
     totalSessions |-> total,
     hasNextPage |-> pageNo * limit <= total]

\* the pagination object of a listing
Pagination(total, pageNo, limit) ==
    [currentPage |-> pageNo,
     totalPages |-> (total + limit - 1) \div limit,
     totalSessions |-> total,
     hasNextPage |-> pageNo * limit < total]

\* a listing's answer: the page of the matching documents, newest first
Listing(db, n, found, query) ==
    LET pageNo == IF query.page = None THEN DefaultPage ELSE query.page[1]
        limit  == IF query.limit = None THEN DefaultLimit ELSE query.limit[1]
    IN  [status |-> 200, error |-> <<>>, session |-> None,
         list |-> Paginate(SortByUpdatedDesc(found), pageNo, limit),
         pagination |-> Some(Pagination(Cardinality(found), pageNo, limit)),
         sessions |-> db, created |-> n]

\* .populate('user_id', 'email created_at'); a user's email stands for the user
Populate(d) == [d EXCEPT !.user_id = [_id |-> @, email |-> @]]

\* a listing whose query leaves out status: 'published'
GetSessionsRouteAnyStatus(db, n, query) ==
    Listing(db, n, {Populate(d) : d \in db}, query)

\* GET /sessions.  The schema declares no text index, so a $text query
\* fails in the database and the route answers 500.
GetSessionsRoute(db, n, query) ==
    IF query.search # None /\ query.search[1] # <<>>
    THEN [status |-> 500, error |-> <<"Failed to fetch sessions">>, session |-> None,
          sessions |-> db, created |-> n]
    ELSE LET tagArray ==
                 IF query.tags = None \/ query.tags[1] = <<>> THEN None
                 ELSE LET pieces == Split(query.tags[1]) IN
                      Some({ToLowerCase(Trim(pieces[i])) : i \in 1..Len(pieces)})
             found == {d \in db :
                         /\ d.status = "published"
                         /\ tagArray # None =>
                                \E i \in 1..Len(d.tags) : d.tags[i] \in tagArray[1]}
         IN  Listing(db, n, {Populate(d) : d \in found}, query)

\* GET /my-sessions
GetMySessionsRoute(db, n, user, query) ==
    LET byStatus == query.status # None /\ query.status[1] \in {"draft", "published"}
        found == {d \in db :
                     /\ d.user_id = user
                     /\ byStatus => d.status = query.status[1]}
    IN  Listing(db, n, found, query)

\* the User collection, and an account it no longer holds
Users == {"alice", "bob"}
GoneUser == "carol"

\* What a request carries as its Authorization header: none, a bearer token
\* that is no JWT, one signed with another secret, one of this server that
\* has expired, or one that verifies; the last three name a user.
Tokens ==
    {[kind |-> "none", userId |-> ""], [kind |-> "malformed", userId |-> ""]}
    \cup [kind : {"forged", "expired", "valid"}, userId : Users \cup {GoneUser}]

\* authenticateToken: next is TRUE when the handler is called, with req.user
\* set to user[1]; otherwise the middleware has answered status and error
authenticateToken(token) ==
    IF token.kind = "none"
    THEN [next |-> FALSE, user |-> None, status |-> 401,
          error |-> <<"Access denied. No token provided.">>]
    ELSE IF token.kind = "expired"
    THEN [next |-> FALSE, user |-> None, status |-> 401,
          error |-> <<"Token expired. Please login again.">>]
    ELSE IF token.kind \in {"malformed", "forged"}
    THEN [next |-> FALSE, user |-> None, status |-> 403,
          error |-> <<"Invalid token.">>]
    ELSE IF token.userId \notin Users
    THEN [next |-> FALSE, user |-> None, status |-> 401,
          error |-> <<"Invalid token. User not found.">>]
    ELSE [next |-> TRUE, user |-> Some(token.userId), status |-> 0, error |-> <<>>]

----------------------------------------------------------------------------
(* The API client.                                                         *)

EditorUser == "alice"

\* a token of this server for user that verifies
Bearer(user) == [kind |-> "valid", userId |-> user]

\* login(newToken, newUser) of the AuthProvider: its token state, both
\* localStorage items and api.setToken(newToken)
SignedIn(user) ==
    [wellness_token |-> Some(Bearer(user)), wellness_user |-> Some(user),
     defaultHeader |-> Some(Bearer(user)),
     token |-> Some(Bearer(user)), isLoading |-> FALSE]

\* logout() of the AuthProvider
SignedOut ==
    [wellness_token |-> None, wellness_user |-> None, defaultHeader |-> None,
     token |-> None, isLoading |-> FALSE]

\* isAuthenticated of the auth context: !!token
isAuthenticated(auth) == auth.token # None

\* The request interceptor: the header carries localStorage's wellness_token
\* when there is one, and otherwise what setToken left as the default.
RequestToken(auth) ==
    IF auth.wellness_token # None THEN auth.wellness_token[1]
    ELSE IF auth.defaultHeader # None THEN auth.defaultHeader[1]
    ELSE [kind |-> "none", userId |-> ""]

\* The response interceptor on an error status: on 401 both localStorage
\* items are removed; window.location.href = '/login' loads the app anew,
\* which forgets the default header and starts the AuthProvider with
\* nothing stored.
ResponseInterceptor(auth, status) ==
    IF status = 401 THEN SignedOut ELSE auth

\* api.saveDraft / api.publishSession post the editor's session object as
\* it is: the identifier travels under the key _id, and the object has no
\* key id.
RequestBody(s) ==
    [id |-> None, _id |-> s._id, title |-> s.title, tags |-> s.tags,
     json_file_url |-> s.json_file_url]

Content(b) == [title |-> b.title, tags |-> b.tags, json_file_url |-> b.json_file_url]

----------------------------------------------------------------------------
(* The SessionEditor component.                                            *)

DefaultUrl == HTTPS \o <<"e">>
NotAUrl    == <<"n">>

ToastAutoSaved      == <<"Auto-saved">>
ToastAutoSaveFailed == <<"Auto-save failed">>
ToastDraftSaved     == <<"Draft saved successfully!">>
ToastPublished      == <<"Session published successfully!">>
ToastTitleRequired  == <<"Title is required for publishing">>
ToastUrlRequired    == <<"JSON file URL is required for publishing">>
ToastUrlInvalid     == <<"Please enter a valid URL (must start with http:// or https://)">>
NetworkErrorMessage == <<"Network Error">>

Init ==
    /\ session = [title |-> <<>>, tags |-> <<>>, json_file_url |-> DefaultUrl,
                  _id |-> None]
    /\ tagInput = <<>>
    /\ isSaving = FALSE
    /\ lastSaved = None
    /\ hasUnsavedChanges = FALSE
    /\ autoSaveTimer = FALSE
    /\ timeouts = <<>>
    /\ effectTimer = 0
    /\ inflight = <<>>
    /\ toast = <<>>
    /\ page = "editor"
    /\ sessions = {}
    /\ created = 0
    /\ response = None
    /\ clientAuth = SignedIn(EditorUser)
    /\ sinceEdit = AutoSaveDelay
    /\ autoSaves = 0
    /\ lastPersisted = None
    /\ lastStep = <<"init", "">>

\* clearTimeout of the timer at index i (0: a handle that is no longer pending)
ClearTimeout(tmo, i) == IF i > 0 THEN Remove(tmo, i) ELSE tmo

\* a dependency list without autoSave: [hasUnsavedChanges, isSaving]
EffectDepsWithoutAutoSave(sessionSet, dirty, saving) ==
    dirty # hasUnsavedChanges \/ saving # isSaving

\* The dependency list of the auto-save effect, [autoSave, hasUnsavedChanges,
\* isSaving]: autoSave is a new function whenever session, hasUnsavedChanges
\* or isSaving is a new value, and every setSession call makes a new object.
EffectDepsChanged(sessionSet, dirty, saving) ==
    sessionSet \/ dirty # hasUnsavedChanges \/ saving # isSaving

\* an effect run that leaves the previous run's timer pending
TimerEffectWithoutCleanup(tmo, eff, s, dirty, saving) ==
    IF dirty /\ ~saving
    THEN [timeouts |-> Append(tmo,
              [left |-> AutoSaveDelay, session |-> s,
               hasUnsavedChanges |-> dirty, isSaving |-> saving]),
          effectTimer |-> Len(tmo) + 1]
    ELSE [timeouts |-> tmo, effectTimer |-> 0]

\* One run of the auto-save effect: the cleanup of the previous run, then a
\* new 5-second timer when there are unsaved changes and no save is running.
\* The timer's callback closes over the autoSave of this render.
TimerEffect(tmo, eff, s, dirty, saving) ==
    LET cleaned == ClearTimeout(tmo, eff) IN
    IF dirty /\ ~saving
    THEN [timeouts |-> Append(cleaned,
              [left |-> AutoSaveDelay, session |-> s,
               hasUnsavedChanges |-> dirty, isSaving |-> saving]),
          effectTimer |-> Len(cleaned) + 1]
    ELSE [timeouts |-> cleaned, effectTimer |-> 0]

\* The render committed after a handler's state updates, and its effects.
\* tmo and eff are the pending timers as the handler itself left them.
Commit(s, sessionSet, dirty, saving, tmo, eff) ==
    /\ session' = s
    /\ hasUnsavedChanges' = dirty
    /\ isSaving' = saving
    /\ IF EffectDepsChanged(sessionSet, dirty, saving)
       THEN LET r == TimerEffect(tmo, eff, s, dirty, saving) IN
            /\ timeouts' = r.timeouts
            /\ effectTimer' = r.effectTimer
            /\ autoSaveTimer' = (autoSaveTimer \/ r.effectTimer > 0)
       ELSE /\ timeouts' = tmo
            /\ effectTimer' = eff
            /\ UNCHANGED autoSaveTimer

\* handleInputChange(field, value)
handleInputChange(field, value) ==
    /\ Commit([session EXCEPT ![field] = value], TRUE, TRUE, isSaving,
              IF autoSaveTimer THEN ClearTimeout(timeouts, effectTimer) ELSE timeouts,
              IF autoSaveTimer THEN 0 ELSE effectTimer)
    /\ sinceEdit' = 0
    /\ autoSaves' = 0
    /\ lastStep' = <<"edit", "">>
    /\ UNCHANGED <<lastSaved, inflight, toast, page, serverVars, apiVars, lastPersisted>>

\* handleTagInputChange(value)
handleTagInputChange(value) ==
    /\ tagInput' = value
    /\ handleInputChange("tags", ParseTags(value))

\* removeTag(indexToRemove); the index is 1-based here
removeTag(indexToRemove) ==
    LET newTags == Remove(session.tags, indexToRemove) IN
    /\ tagInput' = Join(newTags)
    /\ Commit([session EXCEPT !.tags = newTags], TRUE, TRUE, isSaving,
              timeouts, effectTimer)
    /\ sinceEdit' = 0
    /\ autoSaves' = 0
    /\ lastStep' = <<"edit", "">>
    /\ UNCHANGED <<lastSaved, inflight, toast, page, serverVars, apiVars, lastPersisted>>

\* the guard with its tags test inverted
IsEmptySessionTagsInverted(s) ==
    ~NonBlank(s.title) /\ ~NonBlank(s.json_file_url) /\ Len(s.tags) > 0

\* the guard of autoSave against empty sessions
IsEmptySession(s) ==
    ~NonBlank(s.title) /\ ~NonBlank(s.json_file_url) /\ Len(s.tags) = 0

\* autoSave, up to its await: c is the render the callback closes over, tmo
\* and eff the pending timers once the firing one is gone
autoSave(c, tmo, eff) ==
    IF ~c.hasUnsavedChanges \/ c.isSaving
    THEN /\ timeouts' = tmo
         /\ effectTimer' = eff
         /\ lastStep' = <<"autoSave", "return">>
         /\ UNCHANGED <<editorVars, inflight, autoSaves>>
    ELSE IF IsEmptySession(c.session)
    THEN /\ timeouts' = tmo
         /\ effectTimer' = eff
         /\ lastStep' = <<"autoSave", "empty">>
         /\ UNCHANGED <<editorVars, inflight, autoSaves>>
    ELSE /\ Commit(session, FALSE, hasUnsavedChanges, TRUE, tmo, eff)
         /\ inflight' = Append(inflight,
                [op |-> "autoSave", body |-> RequestBody(c.session)])
         /\ autoSaves' = Min(autoSaves + 1, MaxAutoSaves)
         /\ lastStep' = <<"autoSave", "send">>
         /\ UNCHANGED <<tagInput, lastSaved>>

\* a due timer of the auto-save effect fires and runs its callback
TimerFires ==
    /\ page = "editor"
    /\ \E i \in 1..Len(timeouts) :
        /\ timeouts[i].left = 0
        /\ autoSave(timeouts[i], Remove(timeouts, i),
                    IF effectTimer = i THEN 0
                    ELSE IF effectTimer > i THEN effectTimer - 1
                    ELSE effectTimer)
    /\ UNCHANGED <<toast, page, serverVars, apiVars, sinceEdit, lastPersisted>>

\* handleSaveDraft, up to its await
handleSaveDraft ==
    /\ Commit(session, FALSE, hasUnsavedChanges, TRUE, timeouts, effectTimer)
    /\ inflight' = Append(inflight, [op |-> "saveDraft", body |-> RequestBody(session)])
    /\ lastStep' = <<"saveDraft", "send">>
    /\ UNCHANGED <<tagInput, lastSaved, toast, page, serverVars, apiVars,
                   sinceEdit, autoSaves, lastPersisted>>

\* handlePublish, up to its await
handlePublish ==
    /\ IF ~NonBlank(session.title)
       THEN /\ toast' = ToastTitleRequired
            /\ lastStep' = <<"publish", "title">>
            /\ UNCHANGED <<editorVars, timeouts, effectTimer, inflight>>
       ELSE IF ~NonBlank(session.json_file_url)
       THEN /\ toast' = ToastUrlRequired
            /\ lastStep' = <<"publish", "url-required">>
            /\ UNCHANGED <<editorVars, timeouts, effectTimer, inflight>>
       ELSE IF ~validateUrl(session.json_file_url)
       THEN /\ toast' = ToastUrlInvalid
            /\ lastStep' = <<"publish", "url-invalid">>
            /\ UNCHANGED <<editorVars, timeouts, effectTimer, inflight>>
       ELSE /\ Commit(session, FALSE, hasUnsavedChanges, TRUE, timeouts, effectTimer)
            /\ inflight' = Append(inflight,
                   [op |-> "publish", body |-> RequestBody(session)])
            /\ lastStep' = <<"publish", "send">>
            /\ UNCHANGED <<tagInput, lastSaved, toast>>
    /\ UNCHANGED <<page, serverVars, apiVars, sinceEdit, autoSaves, lastPersisted>>

\* a continuation that does not take over the identifier
SaveResolvedWithoutAdoption(req, resp) ==
    /\ Commit(session, FALSE, FALSE, FALSE, timeouts, effectTimer)
    /\ lastSaved' = Some(0)
    /\ toast' = IF req.op = "autoSave" THEN ToastAutoSaved ELSE ToastDraftSaved
    /\ UNCHANGED <<tagInput, page>>

\* The continuation of autoSave / handleSaveDraft after a resolved await.
\* The handler's own session is the one it sent: req.body._id is session._id
\* of that render.
SaveResolved(req, resp) ==
    LET adopt == req.body._id = None /\ resp.session # None IN
    /\ Commit(IF adopt THEN [session EXCEPT !._id = Some(resp.session[1]._id)]
              ELSE session,
              adopt, FALSE, FALSE, timeouts, effectTimer)
    /\ lastSaved' = Some(0)
    /\ toast' = IF req.op = "autoSave" THEN ToastAutoSaved ELSE ToastDraftSaved
    /\ UNCHANGED <<tagInput, page>>

\* ... and after a rejected one: the catch and the finally
SaveRejected(req, message) ==
    /\ Commit(session, FALSE, hasUnsavedChanges, FALSE, timeouts, effectTimer)
    /\ toast' = IF req.op = "autoSave" THEN ToastAutoSaveFailed ELSE message
    /\ UNCHANGED <<tagInput, lastSaved, page>>

\* a continuation that stays in the editor
PublishResolvedStays ==
    /\ Commit(session, FALSE, FALSE, FALSE, timeouts, effectTimer)
    /\ toast' = ToastPublished
    /\ UNCHANGED <<tagInput, lastSaved, page>>

\* The continuation of handlePublish after a resolved await: the editor is
\* left for /my-sessions, which unmounts it and runs the effect's cleanup.
PublishResolved ==
    /\ Commit(session, FALSE, FALSE, FALSE, timeouts, effectTimer)
    /\ toast' = ToastPublished
    /\ page' = "my-sessions"
    /\ UNCHANGED <<tagInput, lastSaved>>

PublishRejected(message) ==
    /\ Commit(session, FALSE, hasUnsavedChanges, FALSE, timeouts, effectTimer)
    /\ toast' = message
    /\ UNCHANGED <<tagInput, lastSaved, page>>

\* the promise of request req settles
Settle(req, ok, resp, message) ==
    /\ lastStep' = <<req.op, IF ok THEN "ok" ELSE "fail">>
    /\ lastPersisted' = IF ok THEN Some(Content(req.body)) ELSE lastPersisted
    /\ UNCHANGED <<sinceEdit, autoSaves, apiVars>>
    /\ IF page # "editor"
       THEN UNCHANGED <<editorVars, timeouts, effectTimer, toast, page>>
       ELSE IF req.op = "publish"
       THEN IF ok THEN PublishResolved ELSE PublishRejected(message)
       ELSE IF ok THEN SaveResolved(req, resp) ELSE SaveRejected(req, message)

\* the route a request is posted to
Route(req) ==
    IF req.op = "publish"
    THEN PublishRoute(sessions, created, EditorUser, req.body)
    ELSE SaveDraftRoute(sessions, created, EditorUser, req.body)

\* the server handles a request of the editor and its response arrives
ServerReply ==
    \E i \in 1..Len(inflight) :
        LET req == inflight[i]
            r   == Route(req)
        IN  /\ r.created <= MaxRecords
            /\ sessions' = r.sessions
            /\ created' = r.created
            /\ inflight' = Remove(inflight, i)
            /\ Settle(req, r.status = 200, r, r.error)

\* a request fails before the server handles it
NetworkError ==
    \E i \in 1..Len(inflight) :
        /\ inflight' = Remove(inflight, i)
        /\ Settle(inflight[i], FALSE, None, NetworkErrorMessage)
        /\ UNCHANGED serverVars

\* one second passes
Tick ==
    /\ timeouts' = [i \in 1..Len(timeouts) |->
                       [timeouts[i] EXCEPT !.left = IF @ > 0 THEN @ - 1 ELSE 0]]
    /\ sinceEdit' = Min(sinceEdit + 1, AutoSaveDelay)
    /\ lastSaved' = IF lastSaved = None THEN None
                    ELSE Some(Min(lastSaved[1] + 1, MaxAge))
    /\ UNCHANGED <<session, tagInput, isSaving, hasUnsavedChanges, autoSaveTimer,
                   effectTimer, inflight, toast, page, serverVars, apiVars,
                   autoSaves, lastPersisted, lastStep>>

----------------------------------------------------------------------------
(* The user at the form.  An input's onChange fires when its value changes; *)
(* a disabled button takes no click.                                        *)

Titles    == {<<>>, <<"a">>}
Urls      == {<<>>, DefaultUrl, NotAUrl}
TagInputs == {<<>>, <<"Y">>}

TypeTitle ==
    /\ page = "editor"
    /\ \E v \in Titles \ {session.title} : handleInputChange("title", v)
    /\ UNCHANGED tagInput

TypeUrl ==
    /\ page = "editor"
    /\ \E v \in Urls \ {session.json_file_url} : handleInputChange("json_file_url", v)
    /\ UNCHANGED tagInput

TypeTags ==
    /\ page = "editor"
    /\ \E v \in TagInputs \ {tagInput} : handleTagInputChange(v)

ClickRemoveTag ==
    /\ page = "editor"
    /\ \E i \in 1..Len(session.tags) : removeTag(i)

\* a Save Draft button that is never disabled
SaveDraftNeverDisabled == FALSE

\* disabled={isSaving} of the Save Draft button
SaveDraftDisabled == isSaving

\* disabled={isSaving || !title.trim() || !json_file_url.trim()} of Publish
PublishDisabled ==
    isSaving \/ ~NonBlank(session.title) \/ ~NonBlank(session.json_file_url)

ClickSaveDraft ==
    /\ page = "editor"
    /\ ~SaveDraftDisabled
    /\ handleSaveDraft

ClickPublish ==
    /\ page = "editor"
    /\ ~PublishDisabled
    /\ handlePublish

Next ==
    \/ TypeTitle
    \/ TypeUrl
    \/ TypeTags
    \/ ClickRemoveTag
    \/ ClickSaveDraft
    \/ ClickPublish
    \/ TimerFires
    \/ Tick
    \/ ServerReply
    \/ NetworkError

Spec == Init /\ [][Next]_vars

----------------------------------------------------------------------------
(* handlePublish called as a function, without the form around it: what   *)
(* it does for any buffer, also one for which the form disables the button. *)

FtpUrl == <<"f", "t", "p", ":", "/", "/", "x">>

HandlerTitles == {<<>>, <<" ">>, <<"a">>}
HandlerUrls   == {<<>>, <<" ">>, NotAUrl, DefaultUrl, FtpUrl, HTTP}

SetTitle ==
    /\ page = "editor"
    /\ \E v \in HandlerTitles \ {session.title} : handleInputChange("title", v)
    /\ UNCHANGED tagInput

SetUrl ==
    /\ page = "editor"
    /\ \E v \in HandlerUrls \ {session.json_file_url} :
           handleInputChange("json_file_url", v)
    /\ UNCHANGED tagInput

CallPublish ==
    /\ page = "editor"
    /\ Len(inflight) < MaxInflight
    /\ handlePublish

HandlerNext ==
    \/ SetTitle
    \/ SetUrl
    \/ CallPublish
    \/ ServerReply
    \/ NetworkError

HandlerSpec == Init /\ [][HandlerNext]_vars

----------------------------------------------------------------------------
(* The routes called directly, with any token, body and query.             *)

ApiTitles == {<<>>, <<" ">>, <<"a">>}
ApiUrls   == {<<>>, <<" ">>, NotAUrl, DefaultUrl, HTTP}
ApiTags   == {<<>>, << <<"Y">> >>}
ApiIds    == {None} \cup {Some(i) : i \in 1..MaxRecords}

ApiBodies ==
    [id : ApiIds, _id : {None}, title : ApiTitles, tags : ApiTags,
     json_file_url : ApiUrls]

Pages  == {None, Some(2)}
Limits == {None, Some(1)}

PublicQueries ==
    [page : Pages, limit : Limits, tags : {None, Some(<<"Y">>)},
     search : {None, Some(<<"a">>)}]

OwnQueries ==
    [page : Pages, limit : Limits,
     status : {None, Some("draft"), Some("published"), Some("all")}]

ProtectedRoutes == {"my-sessions", "my-session", "save-draft", "publish", "delete"}

\* The exchange a route has just completed: the request (route, token, id),
\* req.user as the handler saw it ("" when no handler ran), the status the
\* addressed document had before, and the answer.
Exchange(route, token, user, id, r) ==
    LET hit == {d \in sessions : Some(d._id) = id} IN
    [route |-> route, token |-> token, user |-> user, id |-> id,
     was |-> IF hit = {} THEN "" ELSE (CHOOSE d \in hit : TRUE).status,
     status |-> r.status, error |-> r.error,
     session |-> r.session,
     list |-> IF "list" \in DOMAIN r THEN r.list ELSE <<>>,
     pagination |-> IF "pagination" \in DOMAIN r THEN r.pagination ELSE None]

\* a protected route has answered r to the request carrying token
Answered(route, token, id, r) ==
    /\ r.created <= MaxRecords
    /\ sessions' = r.sessions
    /\ created' = r.created
    /\ response' = Some(Exchange(route, token, authenticateToken(token).user[1], id, r))
    /\ UNCHANGED <<editorVars, browserVars, historyVars, clientAuth>>

\* POST /my-sessions/save-draft with one of tokens and one of bodies
PostSaveDraft(tokens, bodies) ==
    \E t \in tokens :
        LET auth == authenticateToken(t) IN
        /\ auth.next
        /\ \E b \in bodies :
               Answered("save-draft", t, b.id,
                        SaveDraftRoute(sessions, created, auth.user[1], b))

\* POST /my-sessions/publish with one of tokens and one of bodies
PostPublish(tokens, bodies) ==
    \E t \in tokens :
        LET auth == authenticateToken(t) IN
        /\ auth.next
        /\ \E b \in bodies :
               Answered("publish", t, b.id,
                        PublishRoute(sessions, created, auth.user[1], b))

ApiSaveDraft == PostSaveDraft(Tokens, ApiBodies)

ApiPublish == PostPublish(Tokens, ApiBodies)

ApiDelete ==
    \E t \in Tokens :
        LET auth == authenticateToken(t) IN
        /\ auth.next
        /\ \E id \in ApiIds \ {None} :
               Answered("delete", t, id,
                        DeleteRoute(sessions, created, auth.user[1], id))

ApiGetMySession ==
    \E t \in Tokens :
        LET auth == authenticateToken(t) IN
        /\ auth.next
        /\ \E id \in ApiIds \ {None} :
               Answered("my-session", t, id,
                        GetMySessionRoute(sessions, created, auth.user[1], id))

ListMySessions ==
    \E t \in Tokens :
        LET auth == authenticateToken(t) IN
        /\ auth.next
        /\ \E q \in OwnQueries :
               Answered("my-sessions", t, None,
                        GetMySessionsRoute(sessions, created, auth.user[1], q))

\* GET /sessions has no auth gate: whatever token the request carries
ListSessions ==
    \E q \in PublicQueries :
        /\ response' = Some(Exchange("sessions", [kind |-> "none", userId |-> ""],
                                     "", None,
                                     GetSessionsRoute(sessions, created, q)))
        /\ UNCHANGED <<editorVars, browserVars, serverVars, historyVars, clientAuth>>

\* the auth gate answers a request to a protected route itself
ApiRejected ==
    \E t \in Tokens, route \in ProtectedRoutes, id \in ApiIds :
        LET auth == authenticateToken(t) IN
        /\ ~auth.next
        /\ (id = None) = (route \in {"my-sessions", "save-draft", "publish"})
        /\ response' = Some(Exchange(route, t, "", id,
                                     [status |-> auth.status, error |-> auth.error,
                                      session |-> None]))
        /\ UNCHANGED <<editorVars, browserVars, serverVars, historyVars, clientAuth>>

ApiNext ==
    \/ ApiSaveDraft
    \/ ApiPublish
    \/ ApiDelete
    \/ ApiGetMySession

ApiSpec == Init /\ [][ApiNext]_vars

----------------------------------------------------------------------------
(* All routes with the auth gate before them, over the stores the write    *)
(* routes build.  A body that a write route refuses leaves the store as it *)
(* was, so the bodies here are the ones that are written.                  *)

ListBodies ==
    [id : ApiIds, _id : {None}, title : {<<"a">>}, tags : ApiTags,
     json_file_url : {DefaultUrl}]

ListSaveDraft == PostSaveDraft(Tokens, ListBodies)

ListPublish == PostPublish(Tokens, ListBodies)

ListNext ==
    \/ ListSaveDraft
    \/ ListPublish
    \/ ApiDelete
    \/ ApiGetMySession
    \/ ListMySessions
    \/ ListSessions
    \/ ApiRejected

ListSpec == Init /\ [][ListNext]_vars

----------------------------------------------------------------------------
(* The Save Draft button of the editor on a store that is also written     *)
(* through the API with an id, as the README documents the request.        *)

\* the bodies of the editor's user, posted with the id of a record or none
OwnBodies ==
    [id : ApiIds, _id : {None}, title : {<<"a">>}, tags : {<<>>},
     json_file_url : {DefaultUrl}]

OwnSaveDraft == PostSaveDraft({Bearer(EditorUser)}, OwnBodies)

OwnPublish == PostPublish({Bearer(EditorUser)}, OwnBodies)

DraftNext ==
    \/ TypeTitle
    \/ TypeUrl
    \/ ClickSaveDraft
    \/ ServerReply
    \/ NetworkError
    \/ OwnSaveDraft
    \/ OwnPublish

DraftSpec == Init /\ [][DraftNext]_vars

----------------------------------------------------------------------------
(* The API client between the pages and the routes: the token it sends and *)
(* what its response interceptor does with the answer.                     *)

\* a call of the API client: the auth gate, then the route; the response
\* interceptor sees the status
ClientCall(route, id, body) ==
    LET token == RequestToken(clientAuth)
        auth  == authenticateToken(token)
        r     == IF auth.next
                 THEN IF route = "save-draft"
                      THEN SaveDraftRoute(sessions, created, auth.user[1], body[1])
                      ELSE GetMySessionsRoute(sessions, created, auth.user[1],
                                              [page |-> None, limit |-> None,
                                               status |-> None])
                 ELSE [status |-> auth.status, error |-> auth.error, session |-> None,
                       sessions |-> sessions, created |-> created]
    IN  /\ r.created <= MaxRecords
        /\ sessions' = r.sessions
        /\ created' = r.created
        /\ response' = Some(Exchange(route, token,
                                     IF auth.next THEN auth.user[1] ELSE "", id, r))
        /\ clientAuth' = ResponseInterceptor(clientAuth, r.status)
        /\ page' = IF r.status = 401 THEN "login" ELSE page
        /\ lastStep' = <<"request", IF auth.next THEN "ok" ELSE "rejected">>
        /\ UNCHANGED <<editorVars, timeouts, effectTimer, inflight, toast,
                       sinceEdit, autoSaves, lastPersisted>>

\* api.getUserSessions() of the My Sessions page
ClientGetUserSessions == ClientCall("my-sessions", None, None)

\* api.saveDraft(sessionData)
ClientSaveDraft ==
    \E b \in ListBodies : ClientCall("save-draft", b.id, Some(b))

\* login(newToken, newUser) after a successful sign-in
ClientLogin ==
    /\ \E u \in Users : clientAuth' = SignedIn(u)
    /\ lastStep' = <<"login", "">>
    /\ UNCHANGED <<editorVars, browserVars, serverVars, response,
                   sinceEdit, autoSaves, lastPersisted>>

\* handleLogout of the Navbar: logout(), then navigate('/')
handleLogout ==
    /\ clientAuth.wellness_token # None
    /\ clientAuth' = SignedOut
    /\ page' = "home"
    /\ lastStep' = <<"logout", "">>
    /\ UNCHANGED <<editorVars, timeouts, effectTimer, inflight, toast, serverVars,
                   response, sinceEdit, autoSaves, lastPersisted>>

\* the My Sessions link of the Navbar, shown to a signed-in user
OpenMySessions ==
    /\ clientAuth.wellness_token # None
    /\ page # "my-sessions"
    /\ page' = "my-sessions"
    /\ lastStep' = <<"navigate", "">>
    /\ UNCHANGED <<editorVars, timeouts, effectTimer, inflight, toast, serverVars,
                   apiVars, sinceEdit, autoSaves, lastPersisted>>

\* The stored token stops verifying while the app runs: it expires, the
\* server's secret changes, the item is overwritten, or its user is removed.
StoredTokenGoesBad ==
    /\ clientAuth.wellness_token # None
    /\ \E t \in Tokens :
        /\ t.kind # "none"
        /\ authenticateToken(t).next = FALSE
        /\ clientAuth' = [clientAuth EXCEPT !.wellness_token = Some(t)]
    /\ lastStep' = <<"token", "">>
    /\ UNCHANGED <<editorVars, browserVars, serverVars, response,
                   sinceEdit, autoSaves, lastPersisted>>

ClientNext ==
    \/ ClientGetUserSessions
    \/ ClientSaveDraft
    \/ ClientLogin
    \/ handleLogout
    \/ OpenMySessions
    \/ StoredTokenGoesBad

ClientSpec == Init /\ [][ClientNext]_vars

----------------------------------------------------------------------------
(* The tags input of the editor, over any text the user may leave in it.   *)

\* the longest text typed into the tags input, apart from TagSample
MaxTagInputLen == 4

TagChars == {"Y", "c", " ", ","}

\* "Yoga, Calm, yoga"
TagSample ==
    <<"Y", "o", "g", "a", ",", " ", "C", "a", "l", "m", ",", " ", "y", "o", "g", "a">>

\* the texts of the tags input
AnyTagInputs ==
    {TagSample} \cup UNION {[1..n -> TagChars] : n \in 0..MaxTagInputLen}

TypeAnyTags ==
    /\ page = "editor"
    /\ \E v \in AnyTagInputs \ {tagInput} : handleTagInputChange(v)

TagNext ==
    \/ TypeAnyTags
    \/ ClickRemoveTag

TagSpec == Init /\ [][TagNext]_vars

----------------------------------------------------------------------------
(* The editor opened on a record: /editor/:id mounts a SessionEditor whose *)
(* load effect fetches the record with GET /my-sessions/:id.  While the    *)
(* fetch runs the component renders a placeholder without the form, so the *)
(* mount, the fetch and its continuation are one step for the user.        *)

ToastLoadFailed == <<"Failed to load session">>

\* the state a new SessionEditor starts with
NewBuffer ==
    [session |-> [title |-> <<>>, tags |-> <<>>, json_file_url |-> DefaultUrl,
                  _id |-> None],
     tagInput |-> <<>>, lastSaved |-> None, hasUnsavedChanges |-> FALSE]

\* a load that stores the record the way an edit does
LoadedAsEdit(d, age) ==
    [session |-> [title |-> d.title, tags |-> d.tags,
                  json_file_url |-> d.json_file_url, _id |-> Some(d._id)],
     tagInput |-> Join(d.tags), lastSaved |-> Some(age), hasUnsavedChanges |-> TRUE]

\* the state after the load effect's continuation: setSession(data),
\* setTagInput(data.tags.join(', ')), setLastSaved(new Date(data.updated_at));
\* data is the stored document, whose identifier is its _id
Loaded(d, age) ==
    [session |-> [title |-> d.title, tags |-> d.tags,
                  json_file_url |-> d.json_file_url, _id |-> Some(d._id)],
     tagInput |-> Join(d.tags), lastSaved |-> Some(age), hasUnsavedChanges |-> FALSE]

\* a SessionEditor is mounted with state b, the one before it unmounted
Mount(b, result) ==
    LET r == TimerEffect(ClearTimeout(timeouts, effectTimer), 0, b.session,
                         b.hasUnsavedChanges, FALSE)
    IN  /\ session' = b.session
        /\ tagInput' = b.tagInput
        /\ lastSaved' = b.lastSaved
        /\ hasUnsavedChanges' = b.hasUnsavedChanges
        /\ isSaving' = FALSE
        /\ autoSaveTimer' = (r.effectTimer > 0)
        /\ timeouts' = r.timeouts
        /\ effectTimer' = r.effectTimer
        /\ sinceEdit' = AutoSaveDelay
        /\ autoSaves' = 0
        /\ lastPersisted' = IF b.session._id = None THEN None
                            ELSE Some([title |-> b.session.title, tags |-> b.session.tags,
                                       json_file_url |-> b.session.json_file_url])
        /\ lastStep' = <<"open", result>>

\* the user opens /editor (id None) or /editor/:id while no request of an
\* earlier editor is unsettled
OpenEditor ==
    /\ inflight = <<>>
    /\ \E id \in ApiIds :
        LET r == GetMySessionRoute(sessions, created, EditorUser, id) IN
        IF id = None
        THEN /\ Mount(NewBuffer, "new")
             /\ page' = "editor"
             /\ UNCHANGED toast
        ELSE IF r.status = 200
        THEN /\ \E age \in 0..MaxAge : Mount(Loaded(r.session[1], age), "loaded")
             /\ page' = "editor"
             /\ UNCHANGED toast
        ELSE /\ Mount(NewBuffer, "failed")
             /\ page' = "my-sessions"
             /\ toast' = ToastLoadFailed
    /\ UNCHANGED <<inflight, serverVars, apiVars>>

LoadNext ==
    \/ OwnSaveDraft
    \/ OwnPublish
    \/ OpenEditor
    \/ TypeTitle
    \/ ClickSaveDraft
    \/ ClickPublish
    \/ TimerFires
    \/ Tick
    \/ ServerReply
    \/ NetworkError

LoadSpec == Init /\ [][LoadNext]_vars

----------------------------------------------------------------------------
(* The AuthProvider from the start of the app: initializeAuth validates    *)
(* the stored token with GET /auth/me.  The route is not among the sources; *)
(* its answer is any of the outcomes the client tells apart: the promise   *)
(* resolves, rejects with status 401, or rejects otherwise (another status, *)
(* no answer within the timeout).                                          *)

InitOutcomes == {"resolved", "401", "rejected"}

\* the catch of initializeAuth, then setIsLoading(false): both localStorage
\* items are removed; the header api.setToken(storedToken) has set stays
InitRejected(auth) ==
    [auth EXCEPT !.wellness_token = None, !.wellness_user = None,
                 !.isLoading = FALSE]

\* The app is loaded: the API client and the AuthProvider start anew, and
\* initializeAuth runs up to its await, or to its end when nothing is stored.
StartApp ==
    /\ ~clientAuth.isLoading
    /\ LET stored == clientAuth.wellness_token # None /\ clientAuth.wellness_user # None
       IN  clientAuth' = [clientAuth EXCEPT
               !.defaultHeader = IF stored THEN clientAuth.wellness_token ELSE None,
               !.token = None,
               !.isLoading = stored]
    /\ page' = "home"
    /\ lastStep' = <<"auth", "start">>
    /\ UNCHANGED <<editorVars, timeouts, effectTimer, inflight, toast, serverVars,
                   response, sinceEdit, autoSaves, lastPersisted>>

\* api.getCurrentUser() of initializeAuth settles
InitSettles ==
    /\ clientAuth.isLoading
    /\ \E outcome \in InitOutcomes :
        /\ clientAuth' =
               IF outcome = "resolved"
               THEN [clientAuth EXCEPT !.token = clientAuth.defaultHeader,
                                       !.isLoading = FALSE]
               ELSE IF outcome = "401"
               THEN ResponseInterceptor(clientAuth, 401)
               ELSE InitRejected(clientAuth)
        /\ page' = IF outcome = "401" THEN "login" ELSE page
        /\ lastStep' = <<"auth", outcome>>
    /\ UNCHANGED <<editorVars, timeouts, effectTimer, inflight, toast, serverVars,
                   response, sinceEdit, autoSaves, lastPersisted>>

\* the pages call the API client once the AuthProvider has initialized
AuthNext ==
    \/ ~clientAuth.isLoading /\ ClientGetUserSessions
    \/ ~clientAuth.isLoading /\ ClientLogin
    \/ ~clientAuth.isLoading /\ handleLogout
    \/ ~clientAuth.isLoading /\ OpenMySessions
    \/ ~clientAuth.isLoading /\ StoredTokenGoesBad
    \/ StartApp
    \/ InitSettles

AuthSpec == Init /\ [][AuthNext]_vars

----------------------------------------------------------------------------
(* Properties.                                                             *)

\* C1: an automatic persist starts only when 5 seconds have passed since the
\* last field edit, and an edit cancels the pending timer: every pending
\* timer has at least 5 seconds minus the time since the last edit left to
\* run, and when autoSave has just sent a request the last edit lies at least
\* 5 seconds back.
C1_Debounce ==
    /\ \A i \in 1..Len(timeouts) : timeouts[i].left + sinceEdit >= AutoSaveDelay
    /\ lastStep = <<"autoSave", "send">> => sinceEdit >= AutoSaveDelay

\* an automatic persist was sent after two edits (title, then tags)
C1_Witness ==
    /\ lastStep = <<"autoSave", "send">>
    /\ session.title = <<"a">>
    /\ session.tags # <<>>
    /\ Len(inflight) = 1

\* C2: between two consecutive field edits (or after the last one) the
\* editor issues at most one automatic persist, whatever its outcome.
C2_OneAutoSavePerQuietPeriod == autoSaves <= 1

\* C3: all successful saves of one editor instance write one stored record:
\* the store, written by this editor alone, never holds a second document.
C3_OneRecordPerEditor == created <= 1 /\ Cardinality(sessions) <= 1

\* C4: at most one persist is in flight at any time, and isSaving is true
\* exactly while it is: no persist starts while saving is true.
C4_SingleFlight ==
    /\ Len(inflight) <= 1
    /\ isSaving <=> Len(inflight) = 1

\* a persist is in flight while the user goes on editing
C4_Witness ==
    /\ isSaving
    /\ Len(inflight) = 1
    /\ lastStep = <<"edit", "">>
    /\ hasUnsavedChanges

\* C5: whenever the editor is Clean after a successful persist, the buffer
\* equals the contents sent in the last successful persist.
C5_CleanMeansPersisted ==
    (page = "editor" /\ ~hasUnsavedChanges /\ ~isSaving /\ lastPersisted # None)
        => Content(session) = lastPersisted[1]

InitialContent == [title |-> <<>>, tags |-> <<>>, json_file_url |-> DefaultUrl]

\* nothing is pending: no timer runs and no request is in flight, so no
\* persist will start unless the user acts again
Quiescent == page = "editor" /\ timeouts = <<>> /\ inflight = <<>>

\* C6: every edit is eventually persisted: once the editor has come to rest,
\* the buffer is what the last successful persist carried (or nothing was
\* ever persisted and the buffer is still the initial one).
C6_EditsPersistedAtRest ==
    Quiescent =>
        \/ lastPersisted = Some(Content(session))
        \/ lastPersisted = None /\ Content(session) = InitialContent

AllEmpty(b) == Trim(b.title) = <<>> /\ Trim(b.json_file_url) = <<>> /\ b.tags = <<>>

\* C7: a buffer whose title, data URL and tags are all empty never triggers
\* an automatic persist: no automatic request carries such a buffer, and
\* when the timer fires on one, nothing is sent and isSaving stays false.
C7_EmptyNeverAutoSaved ==
    /\ \A i \in 1..Len(inflight) :
           inflight[i].op = "autoSave" => ~AllEmpty(inflight[i].body)
    /\ lastStep = <<"autoSave", "empty">> => (~isSaving /\ inflight = <<>>)

\* the timer fired on an all-empty buffer with unsaved changes
C7_Witness ==
    /\ lastStep = <<"autoSave", "empty">>
    /\ hasUnsavedChanges
    /\ AllEmpty(session)
    /\ timeouts = <<>>

IsHttpUrl(u) ==
    \/ Len(u) > Len(HTTP) /\ SubSeq(u, 1, Len(HTTP)) = HTTP
    \/ Len(u) > Len(HTTPS) /\ SubSeq(u, 1, Len(HTTPS)) = HTTPS

\* C8: every stored record with status published has a non-empty trimmed
\* title and a data URL of the form http(s)://..., whatever requests were made.
C8_PublishedComplete ==
    \A d \in sessions :
        d.status = "published" =>
            /\ d.title # <<>> /\ Head(d.title) # " " /\ d.title[Len(d.title)] # " "
            /\ IsHttpUrl(d.json_file_url)

\* a published record is stored and a publish with a bad URL was just refused
C8_Witness ==
    /\ \E d \in sessions : d.status = "published"
    /\ response # None
    /\ response[1].route = "publish"
    /\ response[1].status = 400
    /\ response[1].error = <<MsgUrlInvalid>>

\* a step in which handlePublish ran and did something
PublishCalled ==
    /\ lastStep'[1] = "publish"
    /\ lastStep'[2] \notin {"ok", "fail"}
    /\ lastStep' # lastStep

\* C9: handlePublish with a title that is empty after trimming makes no
\* network call and changes nothing but the toast, which names the title: no
\* publish request ever carries a blank title, and the step that rejects
\* leaves buffer, dirty flag, isSaving and the requests in flight as they were.
C9_BlankTitleRejected ==
    /\ [](\A i \in 1..Len(inflight) :
            inflight[i].op = "publish" => Trim(inflight[i].body.title) # <<>>)
    /\ [](lastStep = <<"publish", "title">> =>
            (Trim(session.title) = <<>> /\ toast = ToastTitleRequired))
    /\ [][(Trim(session.title) = <<>> /\ PublishCalled)
          => (/\ lastStep' = <<"publish", "title">>
              /\ UNCHANGED <<session, hasUnsavedChanges, isSaving, inflight,
                             timeouts, sessions>>)]_vars

\* handlePublish has just refused a buffer whose title is only a space
C9_Witness ==
    /\ lastStep = <<"publish", "title">>
    /\ session.title = <<" ">>
    /\ toast = ToastTitleRequired
    /\ ~isSaving

\* C10: handlePublish with a non-empty title and a data URL that is blank or
\* not an http(s) URL makes no network call and reports a reason that names
\* the URL and is not the title's reason.
C10_BadUrlRejected ==
    /\ [](\A i \in 1..Len(inflight) :
            inflight[i].op = "publish" => IsHttpUrl(inflight[i].body.json_file_url))
    /\ [](lastStep[1] = "publish" /\ lastStep[2] \in {"url-required", "url-invalid"} =>
            /\ Trim(session.title) # <<>>
            /\ ~IsHttpUrl(session.json_file_url)
            /\ toast \in {ToastUrlRequired, ToastUrlInvalid}
            /\ toast # ToastTitleRequired)
    /\ [][(/\ Trim(session.title) # <<>>
           /\ ~IsHttpUrl(session.json_file_url)
           /\ PublishCalled)
          => (/\ lastStep'[2] = (IF Trim(session.json_file_url) = <<>>
                                 THEN "url-required" ELSE "url-invalid")
              /\ UNCHANGED <<session, hasUnsavedChanges, isSaving, inflight,
                             timeouts, sessions>>)]_vars

\* handlePublish has just refused "not-a-url" under a non-empty title
C10_Witness ==
    /\ lastStep = <<"publish", "url-invalid">>
    /\ session.title = <<"a">>
    /\ session.json_file_url = NotAUrl
    /\ toast = ToastUrlInvalid

\* the documents of db that user does not own, without their place in the
\* order of last writes
OthersDocs(db, user) ==
    {[d EXCEPT !.updated_at = 0] : d \in {e \in db : e.user_id # user}}

\* C11: a record is returned, changed or removed through the /my-sessions
\* routes only for its owner: every document a protected route returns (one
\* or a list) belongs to the user the request was authenticated as, and a
\* request leaves the documents of all other users as they were.
C11_OwnerOnly ==
    /\ [](response # None /\ response[1].route \in ProtectedRoutes =>
            /\ response[1].session # None =>
                   response[1].session[1].user_id = response[1].user
            /\ \A i \in 1..Len(response[1].list) :
                   response[1].list[i].user_id = response[1].user)
    /\ [][response'[1].route \in ProtectedRoutes =>
            OthersDocs(sessions', response'[1].user)
                = OthersDocs(sessions, response'[1].user)]_vars

\* bob's DELETE of a record of alice was refused and the record is still there
C11_Witness ==
    /\ response # None
    /\ response[1].route = "delete"
    /\ response[1].user = "bob"
    /\ response[1].status = 404
    /\ \E d \in sessions : Some(d._id) = response[1].id /\ d.user_id = "alice"
    /\ \E d \in sessions : d.user_id = "bob"

\* the documents with this id that user does not own
Foreign(db, id, user) == {d \in db : Some(d._id) = id /\ d.user_id # user}

\* what the caller sees of a route's answer
Answer(r) == [status |-> r.status, error |-> r.error, session |-> r.session]

\* C12 (amended): a caller who does not own the record named by the id gets,
\* from GET /my-sessions/:id, DELETE, save-draft and publish, the answer the
\* same request gets when the id names no record, and the store is left as
\* it was.  That answer is 404 'Session not found' from GET and DELETE, and
\* from save-draft and publish unless the body fails validation, which is
\* answered 400 before the record is looked up.
C12_NoExistenceLeak ==
    /\ [](\A u \in Users, id \in ApiIds \ {None} :
            LET foreign == Foreign(sessions, id, u)
                absent  == RemoveDocs(sessions, foreign)
                get == GetMySessionRoute(sessions, created, u, id)
                del == DeleteRoute(sessions, created, u, id)
            IN  foreign # {} =>
                /\ Answer(get) = Answer(GetMySessionRoute(absent, created, u, id))
                /\ get.status = 404 /\ get.error = <<MsgNotFound>>
                /\ Answer(del) = Answer(DeleteRoute(absent, created, u, id))
                /\ del.status = 404 /\ del.error = <<MsgNotFound>>
                /\ del.sessions = sessions
                /\ \A b \in {c \in ApiBodies : c.id = id} :
                       LET save == SaveDraftRoute(sessions, created, u, b)
                           pub  == PublishRoute(sessions, created, u, b)
                       IN  /\ Answer(save) = Answer(SaveDraftRoute(absent, created, u, b))
                           /\ Answer(pub) = Answer(PublishRoute(absent, created, u, b))
                           /\ save.sessions = sessions /\ pub.sessions = sessions
                           /\ save.status \in {400, 404} /\ pub.status \in {400, 404}
                           /\ save.status = 404 => save.error = <<MsgNotFound>>
                           /\ pub.status = 404 => pub.error = <<MsgNotFound>>)
    /\ [][(response'[1].id # None
            /\ Foreign(sessions, response'[1].id, response'[1].user) # {})
          => (/\ sessions' = sessions
              /\ response'[1].status \in {400, 404}
              /\ response'[1].session = None)]_vars

\* bob's save-draft with the id of alice's record was answered 404, and the
\* record is as it was
C12_Witness ==
    /\ response # None
    /\ response[1].route = "save-draft"
    /\ response[1].user = "bob"
    /\ response[1].status = 404
    /\ response[1].error = <<MsgNotFound>>
    /\ Foreign(sessions, response[1].id, "bob") # {}

\* C12 as stated: the answer to a caller who does not own the record is
\* always 404 'Session not found'.
C12_NonOwnerGets404 ==
    (/\ response # None
     /\ response[1].id # None
     /\ Foreign(sessions, response[1].id, response[1].user) # {})
    => (response[1].status = 404 /\ response[1].error = <<MsgNotFound>>)

\* C13: the public listing returns only published records, whatever the
\* query: every document in the answer of GET /sessions has status published
\* and is a published document of the store.
C13_PublicListingPublishedOnly ==
    (response # None /\ response[1].route = "sessions") =>
        \A i \in 1..Len(response[1].list) :
            /\ response[1].list[i].status = "published"
            /\ \E d \in sessions :
                   /\ d._id = response[1].list[i]._id
                   /\ d.status = "published"

\* GET /sessions has listed a published record while the store also holds a
\* draft
C13_Witness ==
    /\ response # None
    /\ response[1].route = "sessions"
    /\ response[1].status = 200
    /\ Len(response[1].list) = 1
    /\ response[1].pagination[1].totalSessions = 1
    /\ \E d \in sessions : d.status = "draft"

\* the token verifies and names a user of the User collection
GoodToken(token) == token.kind = "valid" /\ token.userId \in Users

\* C14: the auth gate answers 401 whenever the token is missing, invalid,
\* expired or names a user that no longer exists, and then no handler runs;
\* a handler runs only with req.user set to the verified existing user.
C14_AuthGate401 ==
    (response # None /\ response[1].route \in ProtectedRoutes) =>
        IF GoodToken(response[1].token)
        THEN response[1].user = response[1].token.userId
        ELSE /\ response[1].status = 401
             /\ response[1].user = ""
             /\ response[1].session = None
             /\ response[1].list = <<>>

\* C15: any auth error the server returns makes the client tear its session
\* down: after a call that the auth gate rejected, localStorage holds neither
\* token nor user and the browser is at /login.
C15_AuthErrorTearsDown ==
    lastStep = <<"request", "rejected">> =>
        /\ clientAuth.wellness_token = None
        /\ clientAuth.wellness_user = None
        /\ page = "login"

\* a step in which the promise of a persist is rejected / resolved
PersistFails == lastStep'[2] = "fail" /\ Len(inflight') < Len(inflight)
SaveSucceeds ==
    /\ lastStep' \in {<<"autoSave", "ok">>, <<"saveDraft", "ok">>}
    /\ Len(inflight') < Len(inflight)

\* C16: after any failed persist (automatic, explicit or publish) the editor
\* is Dirty (dirty true, saving false), and the failing step leaves the
\* buffer and lastSaved as they were.
C16_FailedPersistLeavesDirty ==
    /\ [][PersistFails => (hasUnsavedChanges' /\ ~isSaving')]_vars
    /\ [][PersistFails =>
            (session' = session /\ tagInput' = tagInput /\ lastSaved' = lastSaved)]_vars

\* C17: a failed automatic persist schedules no retry: when an automatic
\* persist issued after the last edit has failed, no auto-save timer is
\* pending.
C17_NoAutoRetry ==
    (lastStep = <<"autoSave", "fail">> /\ autoSaves >= 1) => timeouts = <<>>

\* C18: when an automatic or explicit save-draft succeeds the editor becomes
\* Clean (dirty false, saving false), lastSaved is the time of completion,
\* and a buffer without identifier takes the identifier of the record the
\* store has just written; a buffer with one keeps it.
C18_SuccessfulSaveClean ==
    [][SaveSucceeds =>
        /\ ~hasUnsavedChanges' /\ ~isSaving'
        /\ lastSaved' = Some(0)
        /\ session'._id = (IF session._id = None THEN Some(created') ELSE session._id)
        /\ \E d \in sessions' : Some(d._id) = Some(created') /\ d.status = "draft"]_vars

\* the first automatic save has just succeeded and its identifier is adopted
C18_Witness ==
    /\ lastStep = <<"autoSave", "ok">>
    /\ session._id = Some(1)
    /\ lastSaved = Some(0)
    /\ ~hasUnsavedChanges /\ ~isSaving
    /\ \E d \in sessions : d._id = 1 /\ d.title = session.title

\* C19: an explicit save-as-draft is sent in the step of the click, whatever
\* the buffer holds (also nothing) and whatever timer is pending, leaves no
\* auto-save timer pending, and every record a save-draft writes has status
\* draft, also when the record it replaces was published.
C19_ExplicitSaveDraft ==
    /\ [][(lastStep' = <<"saveDraft", "send">> /\ Len(inflight') > Len(inflight)) =>
            /\ inflight' = Append(inflight, [op |-> "saveDraft",
                                             body |-> RequestBody(session)])
            /\ isSaving'
            /\ timeouts' = <<>>]_vars
    /\ [][(lastStep' = <<"saveDraft", "ok">> /\ Len(inflight') < Len(inflight)) =>
            \E d \in sessions' \ sessions : d.status = "draft"]_vars
    /\ [][(/\ response' # response
           /\ response'[1].route = "save-draft"
           /\ response'[1].status = 200) =>
            /\ response'[1].session[1].status = "draft"
            /\ response'[1].session[1] \in sessions'
            /\ \A d \in sessions' :
                   Some(d._id) = response'[1].id => d.status = "draft"]_vars

\* Save Draft was clicked on an entirely empty buffer with an auto-save timer
\* pending: the request is in flight and the timer is gone; and the last
\* save-draft made with an id has turned a published record into a draft
C19_Witness ==
    /\ lastStep = <<"saveDraft", "send">>
    /\ AllEmpty(session)
    /\ hasUnsavedChanges /\ isSaving
    /\ timeouts = <<>>
    /\ Len(inflight) = 1
    /\ AllEmpty(inflight[1].body)
    /\ response # None
    /\ response[1].route = "save-draft"
    /\ response[1].status = 200
    /\ response[1].was = "published"
    /\ response[1].session[1].status = "draft"

\* what GET /my-sessions/:id returns to user for the record a successful
\* save-draft of body b has just written, as title, tags and URL and status
ReadBack(user, b) ==
    LET saved == SaveDraftRoute(sessions, created, user, b)
        got   == GetMySessionRoute(saved.sessions, saved.created, user,
                                   Some(saved.session[1]._id))
    IN  IF got.status # 200 THEN None
        ELSE Some([title |-> got.session[1].title, tags |-> got.session[1].tags,
                   json_file_url |-> got.session[1].json_file_url,
                   status |-> got.session[1].status])

\* the bodies save-draft accepts from user in this store
Accepted(user) == {b \in ApiBodies : SaveDraftRoute(sessions, created, user, b).status = 200}

\* the tags of a body as the store keeps them
StoredTags(tags) ==
    LET kept == SelectSeq(tags, LAMBDA tag : Trim(tag) # <<>>)
    IN  [i \in 1..Len(kept) |-> ToLowerCase(Trim(kept[i]))]

\* C20 (amended): after a successful save-draft, GET /my-sessions/:id with
\* the returned id by the same user returns status draft, the title trimmed
\* ('Untitled Session' for an empty one), the tags trimmed and lowercased
\* without the blank ones, and the trimmed URL; a record read by id is the
\* stored one.
C20_RoundTripNormalised ==
    /\ \A u \in Users : \A b \in Accepted(u) :
           ReadBack(u, b) =
               Some([title |-> IF b.title = <<>> THEN UntitledSession ELSE Trim(b.title),
                     tags |-> StoredTags(b.tags),
                     json_file_url |-> Trim(b.json_file_url),
                     status |-> "draft"])
    /\ (response # None /\ response[1].route = "my-session"
            /\ response[1].status = 200)
        => response[1].session[1] \in sessions

\* a draft saved with tag "Y" has been read back by id with tag "y"
C20_Witness ==
    /\ response # None
    /\ response[1].route = "my-session"
    /\ response[1].status = 200
    /\ response[1].session[1].status = "draft"
    /\ response[1].session[1].tags = << <<"y">> >>
    /\ response[1].session[1].user_id = response[1].user

\* C20 as stated: the record read back has the title, tags and URL that
\* were sent and status draft.
C20_RoundTripIdentity ==
    \A u \in Users : \A b \in Accepted(u) :
        ReadBack(u, b) =
            Some([title |-> b.title, tags |-> b.tags,
                  json_file_url |-> b.json_file_url, status |-> "draft"])

\* C21: a save-draft request is not refused with a validation error: the
\* route answers it with 200, or with 404 when it names a record that is
\* not the caller's.
C21_DraftsExempt ==
    (response # None /\ response[1].route = "save-draft" /\ response[1].user # "")
        => response[1].status \in {200, 404}

\* the bodies whose title or data URL is empty or blank
Incomplete == {b \in ApiBodies : ~NonBlank(b.title) \/ ~NonBlank(b.json_file_url)}

\* C22: a publish request whose title or data URL is missing or blank after
\* trimming is answered 400 with the message that names the field (the title
\* when both are), and no record is created or changed: in every store, for
\* every user and every such body, and on every such request made.
C22_PublishRevalidates ==
    /\ \A u \in Users : \A b \in Incomplete :
           LET r == PublishRoute(sessions, created, u, b) IN
           /\ r.status = 400
           /\ r.error = IF ~NonBlank(b.title)
                        THEN <<"Title is required for publishing">>
                        ELSE <<"JSON file URL is required for publishing">>
           /\ r.session = None
           /\ r.sessions = sessions
           /\ r.created = created
    /\ [][(/\ response' # response
           /\ response'[1].route = "publish"
           /\ response'[1].status = 400) =>
               /\ UNCHANGED serverVars
               /\ response'[1].session = None]_vars

\* a publish was refused for its data URL on a store that holds records
C22_Witness ==
    /\ response # None
    /\ response[1].route = "publish"
    /\ response[1].status = 400
    /\ response[1].error = <<"JSON file URL is required for publishing">>
    /\ response[1].was = "draft"
    /\ \E d \in sessions : Some(d._id) = response[1].id /\ d.status = "draft"

\* C23: the owner of a record never changes: a record the store holds
\* before and after a request has the user_id it had, and a record a
\* request inserts has the user_id of the user who made the request.
C23_OwnerImmutable ==
    [][/\ \A d \in sessions : \A e \in sessions' :
              d._id = e._id => e.user_id = d.user_id
       /\ \A e \in sessions' :
              (\A d \in sessions : d._id # e._id) => e.user_id = response'[1].user]_vars

\* a write that names a record of another user has been refused, and the
\* record still belongs to its owner
C23_Witness ==
    /\ response # None
    /\ response[1].route \in {"save-draft", "publish"}
    /\ response[1].status = 404
    /\ response[1].user = "bob"
    /\ \E d \in sessions :
           /\ Some(d._id) = response[1].id
           /\ d.user_id = "alice"
    /\ \E d \in sessions : d.user_id = "bob"

\* the positions of the commas in text, in order, with 0 before them and
\* Len(text) + 1 after them
Cuts(text) ==
    LET at == SelectSeq([i \in 1..Len(text) |-> i], LAMBDA i : text[i] = ",")
    IN  <<0>> \o at \o <<Len(text) + 1>>

\* the pieces of text between its commas that are not blank, in order
Pieces(text) ==
    LET cuts == Cuts(text)
        all  == [k \in 1..(Len(cuts) - 1) |-> SubSeq(text, cuts[k] + 1, cuts[k + 1] - 1)]
    IN  SelectSeq(all, LAMBDA piece : \E i \in 1..Len(piece) : piece[i] # " ")

\* C24: whenever the text of the tags input changes, the buffer's tags are
\* the non-blank pieces between the commas of the text, in their order and
\* with duplicates, each trimmed and lowercased; "Yoga, Calm, yoga" gives
\* yoga, calm, yoga; and the buffer never holds an empty tag, a tag with
\* blanks around it, or a tag that is not lowercase.
C24_TagParsing ==
    /\ [][tagInput' # tagInput =>
            /\ Len(session'.tags) = Len(Pieces(tagInput'))
            /\ \A k \in 1..Len(session'.tags) :
                   session'.tags[k] = ToLowerCase(Trim(Pieces(tagInput')[k]))]_vars
    /\ [](tagInput = TagSample =>
            session.tags = << <<"y", "o", "g", "a">>, <<"c", "a", "l", "m">>,
                              <<"y", "o", "g", "a">> >>)
    /\ [](\A k \in 1..Len(session.tags) :
            /\ session.tags[k] # <<>>
            /\ Trim(session.tags[k]) = session.tags[k]
            /\ \A i \in 1..Len(session.tags[k]) : session.tags[k][i] \notin {"Y", "C"})

\* "Yoga, Calm, yoga" has been typed
C24_Witness ==
    /\ tagInput = TagSample
    /\ Len(session.tags) = 3
    /\ session.tags[1] = session.tags[3]
    /\ hasUnsavedChanges

\* the editor's publish request has just been answered with success / has
\* just failed
PublishSucceeds == lastStep' = <<"publish", "ok">> /\ Len(inflight') < Len(inflight)
PublishFails    == lastStep' = <<"publish", "fail">> /\ Len(inflight') < Len(inflight)

C26_LoadedSaveUpdatesRecord ==
    /\ [][lastStep' = <<"open", "loaded">> =>
            RequestBody(session').id = session'._id]_vars
    /\ [][(/\ Len(inflight') < Len(inflight)
           /\ lastStep'[2] = "ok"
           /\ inflight[1].body._id # None) =>
               Cardinality({d \in sessions' : d.user_id = EditorUser})
                   = Cardinality({d \in sessions : d.user_id = EditorUser})]_vars

\* C27: a buffer that was just created or loaded is clean, with no save
\* running, no timer pending and no request sent; opening the editor leaves
\* the store as it is; the buffer becomes dirty only by a field edit, and
\* an automatic persist is sent only from a dirty buffer.
C27_CleanUntilEdit ==
    /\ []((lastStep[1] \in {"init", "open"} /\ page = "editor") =>
            /\ ~hasUnsavedChanges
            /\ ~isSaving
            /\ timeouts = <<>>
            /\ inflight = <<>>)
    /\ [][lastStep'[1] = "open" /\ lastStep' # lastStep => UNCHANGED serverVars]_vars
    /\ [][~hasUnsavedChanges /\ hasUnsavedChanges' => lastStep' = <<"edit", "">>]_vars
    /\ [][(lastStep' = <<"autoSave", "send">> /\ Len(inflight') > Len(inflight)) =>
            hasUnsavedChanges /\ sinceEdit = AutoSaveDelay]_vars

\* a record was loaded into the editor, and seconds later nothing has been
\* sent
C27_Witness ==
    /\ lastStep = <<"open", "loaded">>
    /\ session._id # None
    /\ session.title = <<"a">>
    /\ lastSaved = Some(MaxAge)
    /\ sessions # {}
    /\ page = "editor"
    /\ inflight = <<>>

\* C28: at most one auto-save timer is pending, a step that starts a timer
\* leaves no other pending, no timer is pending while a persist is in
\* flight, and none while the editor is clean.
C28_SingleTimer ==
    /\ [](Len(timeouts) <= 1)
    /\ [](isSaving => timeouts = <<>>)
    /\ [](inflight # <<>> => timeouts = <<>>)
    /\ []((~hasUnsavedChanges /\ ~isSaving) => timeouts = <<>>)
    /\ [][(timeouts' # <<>> /\ timeouts'[Len(timeouts')].left = AutoSaveDelay) =>
            /\ Len(timeouts') = 1
            /\ effectTimer' = 1]_vars

\* an edit of a buffer that was saved before has left one fresh timer
C28_Witness ==
    /\ lastStep = <<"edit", "">>
    /\ Len(timeouts) = 1
    /\ timeouts[1].left = AutoSaveDelay
    /\ session.title = <<"a">>
    /\ session.tags # <<>>
    /\ lastSaved = Some(MaxAge)

\* the least n with n * limit >= total
Ceil(total, limit) == CHOOSE n \in 0..total : n * limit >= total /\ (n = 0 \/ (n - 1) * limit < total)

\* what the claim says of a listing's answer r to a query with this page
\* number and limit
PageOk(r, pageNo, limit) ==
    LET p == r.pagination[1]
        n == Len(r.list)
    IN  /\ p.currentPage = pageNo
        /\ p.totalPages = Ceil(p.totalSessions, limit)
        /\ p.hasNextPage = (p.currentPage < p.totalPages)
        /\ n <= limit
        /\ p.hasNextPage => n = limit
        /\ (p.currentPage = p.totalPages) =>
               n = p.totalSessions - (p.currentPage - 1) * limit
        /\ (p.currentPage > p.totalPages) => n = 0

PageOf(q)  == IF q.page = None THEN 1 ELSE q.page[1]
LimitOf(q) == IF q.limit = None THEN 20 ELSE q.limit[1]

\* C29: in every answer of GET /sessions and GET /my-sessions with status
\* 200, totalPages is totalSessions / limit rounded up, hasNextPage holds
\* exactly when currentPage < totalPages, and the page holds at most limit
\* records (limit of them when a page follows, the rest on the last page):
\* for every query on every store, and in every answer given.
C29_Pagination ==
    /\ [](\A q \in PublicQueries :
            LET r == GetSessionsRoute(sessions, created, q) IN
            r.status = 200 => PageOk(r, PageOf(q), LimitOf(q)))
    /\ [](\A u \in Users : \A q \in OwnQueries :
            PageOk(GetMySessionsRoute(sessions, created, u, q), PageOf(q), LimitOf(q)))
    /\ [][(/\ response' # response
           /\ response'[1].route \in {"sessions", "my-sessions"}
           /\ response'[1].status = 200) =>
               \E pageNo \in {1, 2}, limit \in {1, 20} :
                   PageOk(response'[1], pageNo, limit)]_vars

\* the first page of one record each, of two
C29_Witness ==
    /\ response # None
    /\ response[1].route = "my-sessions"
    /\ response[1].status = 200
    /\ response[1].pagination[1] =
           [currentPage |-> 1, totalPages |-> 2, totalSessions |-> 2, hasNextPage |-> TRUE]
    /\ Len(response[1].list) = 1

\* C30: outside an initialization in progress, isAuthenticated holds
\* exactly when localStorage holds a token; and when the user is not
\* authenticated (after a logout, or after the stored token has failed its
\* validation) the API client's requests carry no Authorization header.
C30_AuthConsistent ==
    ~clientAuth.isLoading =>
        /\ isAuthenticated(clientAuth) = (clientAuth.wellness_token # None)
        /\ ~isAuthenticated(clientAuth) => RequestToken(clientAuth).kind = "none"

====
